---- MODULE Spec2Model ----
(***************************************************************************)
(* A state-machine model of the orbital positioning core of exspheriment. *)
(*                                                                         *)
(*   Spec     the World of src/world.rs: add_body, update and the          *)
(*            update_positions pass, one body popped per step.             *)
(*   EcsSpec  the fixed-step systems of src/ecs/physics.rs: sim_tick,      *)
(*            motion_system (upward walk, then the memoised iteration in   *)
(*            any order) and global_position_to_transform.                 *)
(*                                                                         *)
(* Floating-point vectors are integer triples.  The Kepler solution of an  *)
(* orbit is sampled on a four-point lattice (periapsis, the two ends of    *)
(* the latus rectum, apoapsis), and the orientation angles are quarter     *)
(* turns, which rotate the integer lattice exactly.                        *)
(***************************************************************************)
EXTENDS Integers, Sequences, FiniteSets, TLC

VARIABLES
    \* ---- src/world.rs: struct World
    bodies,        \* Valet<Body>: tag -> Body, tags issued 1, 2, ...
    roots,         \* Vec<Tag<Body>>
    body_tags,     \* Vec<Tag<Body>>
    time,          \* SimInstant (microseconds)
    last_update,   \* std::time::Instant (nanoseconds of wall clock)
    \* ---- the position of World's caller
    wpc,           \* "idle" | "updating" | "updated" | "panicked"
    pending,       \* the local stack of update_positions
    writes,        \* per tag: assignments to abs_state in the current pass
    updates,       \* number of World::update calls so far
    last_add,      \* the last add_body call: its arguments and the tag returned
    \* ---- src/ecs/physics.rs: resources and components
    now,           \* SimTimer.now (microseconds)
    ticks,         \* number of sim_tick_system runs so far
    relative,      \* entity -> its RelativeMotion, or NoMotion
    origins,       \* the entities carrying WorldOrigin
    globals,       \* the entities carrying GlobalPosition (and a Transform)
    gpos,          \* entity -> GlobalPosition
    translation,   \* entity -> Transform.translation
    \* ---- the position inside one fixed step, and motion_system's locals
    epc,           \* "off" | "tick" | "motion" | "walk" | "iter" | "xform" | "panicked",
                   \* and in main.rs "mtick" | "orbit" | "abs" | "absiter"
    cache,         \* cached_global_positions: HashMap<Entity, DVec3>
    current_entity,
    current_position,
    todo,          \* entities global_position_query has not yet yielded
    evals,         \* entity -> calls of Motion::position in this run
    \* ---- src/orbit.rs: one orbit, and what its functions return for it
    orbit_in,      \* the Orbit3D handed to the functions
    query,         \* the SimInstant of the last query
    result,        \* what the function applied last returned
    opc,           \* "off" | "ready" | the function applied
    \* ---- the bevy hierarchy and the build profile
    parented,      \* the entities carrying a bevy Parent
    debug_assertions,  \* TRUE in a build that checks debug_assert!
    \* ---- src/ecs/input.rs
    controller,    \* the camera's Controller: yaw, pitch
    focus,         \* FocusState: window_focused, grabbed
    input          \* bevy's input resources and event queues in this frame,
                   \* and the systems of the "input" set that have read them

wvars == <<bodies, roots, body_tags, time, last_update, wpc, pending, writes,
           updates, last_add>>
evars == <<now, ticks, relative, origins, globals, gpos, translation, epc, cache,
           current_entity, current_position, todo, evals>>
ovars == <<orbit_in, query, result, opc>>
hvars == <<parented, debug_assertions>>
ivars == <<controller, focus, input>>
vars == <<wvars, evars, ovars, hvars, ivars>>

-----------------------------------------------------------------------------
(* Bounds of the model. *)

MaxBodies == 3
MaxUpdates == 2
NumEntities == 4
MaxTicks == 2
MaxMoves == 1
MaxFrames == 2

-----------------------------------------------------------------------------
(* Integer helpers standing in for f64 arithmetic. *)

Abs(x) == IF x < 0 THEN -x ELSE x

\* f64::sqrt on the integer lattice: the floor of the square root.
RECURSIVE ISqrtFrom(_, _)
ISqrtFrom(n, x) ==
    LET y == (x + n \div x) \div 2
    IN  IF y >= x THEN x ELSE ISqrtFrom(n, y)
ISqrt(n) == IF n <= 0 THEN 0 ELSE ISqrtFrom(n, n)

\* Rust's integer remainder: the result takes the sign of the dividend.
RustRem(a, b) == IF a >= 0 THEN a % Abs(b) ELSE -((-a) % Abs(b))

\* Rust's integer division: truncation toward zero.
RustDiv(a, b) ==
    LET q == Abs(a) \div Abs(b)
    IN  IF (a < 0) = (b < 0) THEN q ELSE -q

(* glam DVec3 *)
Zero3 == <<0, 0, 0>>
VAdd(a, b) == <<a[1] + b[1], a[2] + b[2], a[3] + b[3]>>
VSub(a, b) == <<a[1] - b[1], a[2] - b[2], a[3] - b[3]>>
VCross(a, b) == <<a[2] * b[3] - a[3] * b[2],
                  a[3] * b[1] - a[1] * b[3],
                  a[1] * b[2] - a[2] * b[1]>>
VDot(a, b) == a[1] * b[1] + a[2] * b[2] + a[3] * b[3]
VLength(a) == ISqrt(VDot(a, a))

\* DQuat::from_rotation_z / from_rotation_x applied to a vector, the angle in
\* quarter turns.
RotZ(v, k) ==
    CASE k % 4 = 0 -> v
      [] k % 4 = 1 -> <<-v[2], v[1], v[3]>>
      [] k % 4 = 2 -> <<-v[1], -v[2], v[3]>>
      [] OTHER     -> <<v[2], -v[1], v[3]>>
RotX(v, k) ==
    CASE k % 4 = 0 -> v
      [] k % 4 = 1 -> <<v[1], -v[3], v[2]>>
      [] k % 4 = 2 -> <<v[1], -v[2], -v[3]>>
      [] OTHER     -> <<v[1], v[3], -v[2]>>

-----------------------------------------------------------------------------
(* src/time.rs *)

SimInstant_epoch == 0
SimInstant_add(t, d) == t + d

\* Mutant: the operands of the subtraction are exchanged.
SimInstant_sub_reversed(a, b) == b - a

\* impl Sub for SimInstant, lines 66-74
SimInstant_sub(a, b) == a - b

\* Mutant: the remainder is not taken.
SimDuration_rem_skipped(a, b) == a

\* impl Rem for SimDuration
SimDuration_rem(a, b) == RustRem(a, b)

\* std::time::Duration is held in nanoseconds.
Duration_from_millis(ms) == ms * 1000000
Duration_mul(d, k) == d * k

\* Mutant: the duration is read in milliseconds.
SimDuration_from_Duration_millis(nanos) == nanos \div 1000000

\* impl From<std::time::Duration> for SimDuration: Duration::as_micros.
SimDuration_from_Duration(nanos) == nanos \div 1000

\* SimDuration::from_secs_f64, the seconds given in microseconds already:
\* the cast truncates toward zero.
SimDuration_from_micros(m) == m

-----------------------------------------------------------------------------
(* src/orbit.rs: Orbit2D.  e is held in hundredths; p, grav are integers. *)

NoOrbit == [none |-> TRUE]
None == [none |-> TRUE]
Some(x) == [none |-> FALSE, val |-> x]

TAU_MICROS == 6283185

\* An f64 where NaN and the infinities matter: [nan, inf, val], val the value
\* of a finite number and the sign of an infinite one.
F64(val) == [nan |-> FALSE, inf |-> FALSE, val |-> val]
F64_NAN == [nan |-> TRUE, inf |-> FALSE, val |-> 0]

\* f64 subtraction of finite numbers: NaN if either operand is
F64_sub(a, b) == IF a.nan \/ b.nan THEN F64_NAN ELSE F64(a.val - b.val)

\* Mutant: the comparison is true of NaN as well.
F64_abs_lt_or_nan(a, bound) == a.nan \/ Abs(a.val) < bound

\* a.abs() < bound: false when a is NaN
F64_abs_lt(a, bound) == ~a.nan /\ ~a.inf /\ Abs(a.val) < bound

\* f64 division x / y of finite numbers: 0 / 0 is NaN, x / 0 an infinity of
\* x's sign; no division panics.
F64_div(x, y) ==
    IF y = 0
    THEN (IF x = 0 THEN F64_NAN
          ELSE [nan |-> FALSE, inf |-> TRUE, val |-> IF x > 0 THEN 1 ELSE -1])
    ELSE F64(RustDiv(x, y))


Orbit2D_new(e, p, t0, grav) == [e |-> e, p |-> p, t0 |-> t0, grav |-> grav]

Orbit2D_from_apsides(ra, rp, t0, grav) ==
    LET e == (100 * (ra - rp)) \div (ra + rp)
        p == (rp * (100 + e)) \div 100
    IN  Orbit2D_new(e, p, t0, grav)

Orbit2D_is_elliptic(o) == o.e < 100
Orbit2D_is_parabolic(o) == o.e = 100

\* Mutant: an orbit with e = 1 counts as hyperbolic too.
Orbit2D_is_hyperbolic_from_one(o) == o.e >= 100

Orbit2D_is_hyperbolic(o) == o.e > 100

\* Apoapsis p / (1 - e), periapsis p / (1 + e), semi-major axis p / (1 - e^2);
\* ra and a are read on elliptic orbits only.
Orbit2D_ra(o) == (o.p * 100) \div (100 - o.e)
Orbit2D_rp(o) == (o.p * 100) \div (100 + o.e)
Orbit2D_a(o) == (o.p * 10000) \div (10000 - o.e * o.e)

\* Specific angular momentum sqrt(p * grav)
Orbit2D_h(o) == ISqrt(o.p * o.grav)

\* TAU * sqrt(a^3 / grav) seconds, as microseconds.  The product with TAU is
\* taken in two parts to stay within 32 bits: TAU_MICROS * s \div 1000.
Orbit2D_period(o) ==
    IF Orbit2D_is_elliptic(o)
    THEN LET a == Orbit2D_a(o)
             s == ISqrt((a * a * a * 1000000) \div o.grav)
         IN  Some(SimDuration_from_micros(
                 (TAU_MICROS \div 1000) * s + ((TAU_MICROS % 1000) * s) \div 1000))
    ELSE None

\* The in-plane state after dt microseconds since periapsis.  A periodic orbit
\* is sampled at the quarter of the period dt falls in, a non-periodic one at
\* periapsis (dt = 0) and at the end of the latus rectum on the side of dt.
Orbit2D_state_at(o, dt, period) ==
    LET rp == Orbit2D_rp(o)
        h  == Orbit2D_h(o)
        vh == IF h = 0 THEN 0 ELSE o.grav \div h
        q  == IF period.none
              THEN (IF dt = 0 THEN 0 ELSE IF dt > 0 THEN 1 ELSE 3)
              ELSE ((((dt + period.val) % period.val) * 4) \div period.val) % 4
    IN  CASE q = 0 -> [position |-> <<rp, 0, 0>>,
                       velocity |-> <<0, IF rp = 0 THEN 0 ELSE h \div rp, 0>>]
          [] q = 1 -> [position |-> <<0, o.p, 0>>,
                       velocity |-> <<-vh, (vh * o.e) \div 100, 0>>]
          [] q = 2 -> [position |-> <<-Orbit2D_ra(o), 0, 0>>,
                       velocity |-> <<0, -((vh * (100 - o.e)) \div 100), 0>>]
          [] OTHER -> [position |-> <<0, -o.p, 0>>,
                       velocity |-> <<vh, (vh * o.e) \div 100, 0>>]

\* current_state, lines 109-113: the elapsed time handed to the solver
Orbit2D_elapsed(o, t) ==
    LET dt     == SimInstant_sub(t, o.t0)
        period == Orbit2D_period(o)
    IN  IF period.none THEN dt ELSE SimDuration_rem(dt, period.val)

Orbit2D_current_state(o, t) ==
    LET s == Orbit2D_state_at(o, Orbit2D_elapsed(o, t), Orbit2D_period(o))
    IN  [position |-> s.position, velocity |-> s.velocity, time |-> t]

(* src/orbit.rs: Orbit3D.  arg_pe, inc, lan are quarter turns. *)

Orbit3D_new(shape, arg_pe, inc, lan) ==
    [shape |-> shape, arg_pe |-> arg_pe, inc |-> inc, lan |-> lan]

\* orientation() = Rz(lan) * Rx(inc) * Rz(arg_pe), applied to v
Orbit3D_orient(o, v) == RotZ(RotX(RotZ(v, o.arg_pe), o.inc), o.lan)

Orbit3D_current_state(o, t) ==
    LET s == Orbit2D_current_state(o.shape, t)
    IN  [position |-> Orbit3D_orient(o, s.position),
         velocity |-> Orbit3D_orient(o, s.velocity),
         time     |-> s.time]

\* acos of num / den in quarter turns, for the lattice directions.
AcosQ(num, den) == IF num >= den THEN 0 ELSE IF num <= -den THEN 2 ELSE 1

\* Orbit determination from a state vector.  The vector algebra is the
\* code's; the angles are rounded to quarter turns and the time since
\* periapsis to the quarter of the true anomaly.  On a hyperbolic orbit the
\* code takes the square root of (1 - e) / (1 + e) < 0: t is NaN, and the cast
\* of from_secs_f64 makes it 0.
Orbit3D_from_current_state(state, grav) ==
    LET r     == state.position
        v     == state.velocity
        r_mag == VLength(r)
        v_mag == VLength(v)
        h     == VCross(r, v)
        n     == VCross(<<0, 0, 1>>, h)
        k     == VDot(v, v) - (IF r_mag = 0 THEN 0 ELSE grav \div r_mag)
        e100  == [i \in 1..3 |-> RustDiv(100 * (k * r[i] - r_mag * v_mag * v[i]), grav)]
        h_mag == VLength(h)
        n_mag == VLength(n)
        e_mag == VLength(e100)
        inc   == AcosQ(h[3], h_mag)
        half_lan == AcosQ(n[1], n_mag)
        lan   == IF n[2] >= 0 THEN half_lan ELSE 4 - half_lan
        half_arg_pe == AcosQ(VDot(n, e100), n_mag * e_mag)
        arg_pe == IF e100[3] >= 0 THEN half_arg_pe ELSE 4 - half_arg_pe
        p     == (h_mag * h_mag) \div grav
        half_theta == AcosQ(VDot(e100, r), e_mag * r_mag)
        theta == IF VDot(r, v) >= 0 THEN half_theta ELSE 4 - half_theta
        shape0 == Orbit2D_new(e_mag, p, state.time, grav)
        period == Orbit2D_period(shape0)
        t     == IF period.none THEN 0 ELSE (period.val * (theta % 4)) \div 4
    IN  Orbit3D_new(Orbit2D_new(e_mag, p, state.time - t, grav), arg_pe, inc, lan)

(* src/orbit.rs: State3D.  zero and offset_by are used by world.rs. *)

State3D_zero(t) == [position |-> Zero3, velocity |-> Zero3, time |-> t]

State3D_offset_by(s, other) ==
    [position |-> VAdd(s.position, other.position),
     velocity |-> VAdd(s.velocity, other.velocity),
     time     |-> s.time]

-----------------------------------------------------------------------------
(* src/world.rs *)

\* Universal gravitational constant, in units that make G * mass an integer.
G == 66743

NoTag == 0

Trajectory_Fixed(position) == [kind |-> "Fixed", position |-> position]
Trajectory_Orbiting(parent, orbit) ==
    [kind |-> "Orbiting", parent |-> parent, orbit |-> orbit]

OrbitSpec_parent(spec) ==
    IF spec.kind \in {"InitialState", "Apsides"} THEN Some(spec.parent) ELSE None

OrbitSpec_to_trajectory(spec, grav) ==
    CASE spec.kind = "Fixed" -> Trajectory_Fixed(spec.position)
      [] spec.kind = "InitialState" ->
            Trajectory_Orbiting(spec.parent,
                                Orbit3D_from_current_state(spec.state, grav))
      [] OTHER ->
            Trajectory_Orbiting(spec.parent,
                Orbit3D_new(Orbit2D_from_apsides(spec.apo, spec.peri, spec.t0, grav),
                            spec.arg_pe, spec.inc, spec.lan))

Trajectory_parent(tr) == IF tr.kind = "Orbiting" THEN Some(tr.parent) ELSE None

Trajectory_current_state(tr, t) ==
    IF tr.kind = "Fixed"
    THEN [position |-> tr.position, velocity |-> Zero3, time |-> t]
    ELSE Orbit3D_current_state(tr.orbit, t)

\* Valet's Index: a tag that addresses no body cannot yield a &Body.
Valet_contains(bs, tag) == tag \in DOMAIN bs

\* add_body, lines 70-76: the parent's mass and absolute state are read
\* through self.bodies[&tag] before anything is inserted.
AddBody_lookup_fails(bs, spec) ==
    LET par == OrbitSpec_parent(spec)
    IN  ~par.none /\ ~Valet_contains(bs, par.val)

\* Mutant: the body is inserted first and its parent looked up afterwards.
AddBody_arena_on_panic_inserted(bs, spec) ==
    Append(bs, [trajectory |-> Trajectory_Orbiting(spec.parent, NoOrbit),
                abs_state  |-> State3D_zero(SimInstant_epoch),
                satellites |-> <<>>,
                mass       |-> 0,
                radius     |-> 0])

\* What the arena holds when that lookup panics: line 84 was not reached.
AddBody_arena_on_panic(bs, spec) == bs

\* add_body, lines 70-90: the Body that is inserted.
AddBody_new_body(bs, t, spec, mass, radius) ==
    LET par          == OrbitSpec_parent(spec)
        m1           == IF par.none THEN 0 ELSE bs[par.val].mass
        parent_state == IF par.none THEN State3D_zero(t) ELSE bs[par.val].abs_state
        trajectory   == OrbitSpec_to_trajectory(spec, G * (m1 + mass))
        state        == IF spec.kind = "InitialState"
                        THEN spec.state
                        ELSE Trajectory_current_state(trajectory, t)
    IN  [trajectory |-> trajectory,
         abs_state  |-> State3D_offset_by(state, parent_state),
         satellites |-> <<>>,
         mass       |-> mass,
         radius     |-> radius]

\* Valet::insert: the body is stored under a tag no body has had.
Valet_insert_tag(bs) == Len(bs) + 1

\* Mutant: the new tag is put at the front of the parent's satellites.
AddBody_register_satellite_front(bs, spec, tag) ==
    LET par == OrbitSpec_parent(spec)
    IN  IF par.none THEN bs
        ELSE [bs EXCEPT ![par.val].satellites = <<tag>> \o @]

\* Mutant: every new tag is pushed to roots, satellites included.
AddBody_register_root_always(rts, spec, tag) == Append(rts, tag)

\* add_body, lines 91-95: the parent's satellites, or roots.
AddBody_register_satellite(bs, spec, tag) ==
    LET par == OrbitSpec_parent(spec)
    IN  IF par.none THEN bs
        ELSE [bs EXCEPT ![par.val].satellites = Append(@, tag)]

AddBody_register_root(rts, spec, tag) ==
    IF OrbitSpec_parent(spec).none THEN Append(rts, tag) ELSE rts

\* Mutant: the parent's state is never read.
UpdatePositions_parent_state_zero(bs, tag, t) == State3D_zero(t)

\* update_positions, lines 103-107
UpdatePositions_parent_state(bs, tag, t) ==
    LET par == Trajectory_parent(bs[tag].trajectory)
    IN  IF par.none THEN State3D_zero(t) ELSE bs[par.val].abs_state

\* update_positions, lines 109-112
UpdatePositions_abs_state(bs, tag, t) ==
    State3D_offset_by(Trajectory_current_state(bs[tag].trajectory, t),
                      UpdatePositions_parent_state(bs, tag, t))

\* Mutant: the satellites are moved out of the body as they are pushed.
UpdatePositions_write_drains(bs, tag, state) ==
    [bs EXCEPT ![tag].abs_state = state, ![tag].satellites = <<>>]

\* update_positions, lines 108-109: the one field of the body assigned
UpdatePositions_write(bs, tag, state) == [bs EXCEPT ![tag].abs_state = state]

\* Mutant: the satellites of the popped body are not pushed.
UpdatePositions_next_pending_no_extend(pend, satellites) ==
    SubSeq(pend, 1, Len(pend) - 1)

\* update_positions, lines 102 and 113: pop the last tag, push its satellites.
UpdatePositions_next_pending(pend, satellites) ==
    SubSeq(pend, 1, Len(pend) - 1) \o satellites

\* update, line 119: the wall-clock time since the last update, scaled.
Update_dt(elapsed) == SimDuration_from_Duration(Duration_mul(elapsed, 100000))

(* The inputs add_body and update are given. *)

Positions == {<<1, 0, 2>>}
Masses == {1, 2}
Radii == {1}
InitialStates ==
    {[position |-> <<4, 0, 0>>, velocity |-> <<0, 0, 300>>, time |-> SimInstant_epoch]}
ApsidesShapes ==
    {[apo |-> 1, peri |-> 1, arg_pe |-> 0, inc |-> 0, lan |-> 0],
     [apo |-> 6, peri |-> 2, arg_pe |-> 1, inc |-> 1, lan |-> 0]}
ParentTags == 1..MaxBodies

OrbitSpecs ==
    {[kind |-> "Fixed", position |-> pos] : pos \in Positions}
    \cup {[kind |-> "InitialState", parent |-> par, state |-> s] :
            par \in ParentTags, s \in InitialStates}
    \cup {[kind |-> "Apsides", parent |-> par, apo |-> a.apo, peri |-> a.peri,
           t0 |-> SimInstant_epoch, arg_pe |-> a.arg_pe, inc |-> a.inc,
           lan |-> a.lan] : par \in ParentTags, a \in ApsidesShapes}

\* Wall-clock nanoseconds between two World::update calls.
Elapsed == {100, 250}

ZeroWrites(bs) == [tag \in DOMAIN bs |-> 0]

WorldInit ==
    /\ bodies = <<>>
    /\ roots = <<>>
    /\ body_tags = <<>>
    /\ time = SimInstant_epoch
    /\ last_update = 0
    /\ wpc = "idle"
    /\ pending = <<>>
    /\ writes = <<>>
    /\ updates = 0
    /\ last_add = [n |-> 0]

\* World::add_body; World::new is its only caller, before any update.
AddBody(spec, mass, radius) ==
    /\ wpc = "idle"
    /\ updates = 0
    /\ Len(bodies) < MaxBodies
    /\ IF AddBody_lookup_fails(bodies, spec)
       THEN /\ wpc' = "panicked"
            /\ bodies' = AddBody_arena_on_panic(bodies, spec)
            /\ last_add' = [n |-> last_add.n + 1, spec |-> spec, mass |-> mass,
                            radius |-> radius, tag |-> NoTag]
            /\ UNCHANGED <<roots, body_tags, writes>>
       ELSE LET tag  == Valet_insert_tag(bodies)
                body == AddBody_new_body(bodies, time, spec, mass, radius)
            IN  /\ bodies' = AddBody_register_satellite(Append(bodies, body), spec, tag)
                /\ roots' = AddBody_register_root(roots, spec, tag)
                /\ body_tags' = Append(body_tags, tag)
                /\ writes' = ZeroWrites(bodies')
                /\ last_add' = [n |-> last_add.n + 1, spec |-> spec, mass |-> mass,
                                radius |-> radius, tag |-> tag]
                /\ wpc' = "idle"
    /\ UNCHANGED <<time, last_update, pending, updates>>

\* World::update up to the clone of roots in update_positions.
UpdateBegin(elapsed) ==
    /\ wpc \in {"idle", "updated"}
    /\ updates < MaxUpdates
    /\ time' = SimInstant_add(time, Update_dt(elapsed))
    /\ last_update' = last_update + elapsed
    /\ pending' = roots
    /\ writes' = ZeroWrites(bodies)
    /\ updates' = updates + 1
    /\ wpc' = IF roots = <<>> THEN "updated" ELSE "updating"
    /\ UNCHANGED <<bodies, roots, body_tags, last_add>>

\* One iteration of the while-let loop of update_positions.
UpdateStep ==
    /\ wpc = "updating"
    /\ pending # <<>>
    /\ LET tag == pending[Len(pending)]
       IN  /\ bodies' = UpdatePositions_write(bodies, tag,
                                           UpdatePositions_abs_state(bodies, tag, time))
           /\ pending' = UpdatePositions_next_pending(pending, bodies[tag].satellites)
           /\ writes' = [writes EXCEPT ![tag] = @ + 1]
    /\ wpc' = IF pending' = <<>> THEN "updated" ELSE "updating"
    /\ UNCHANGED <<roots, body_tags, time, last_update, updates, last_add>>

EcsIdle ==
    /\ now = SimInstant_epoch
    /\ ticks = 0
    /\ relative = <<>>
    /\ origins = {}
    /\ globals = {}
    /\ gpos = <<>>
    /\ translation = <<>>
    /\ epc = "off"
    /\ cache = <<>>
    /\ current_entity = 0
    /\ current_position = Zero3
    /\ todo = {}
    /\ evals = <<>>

OrbitIdle ==
    /\ orbit_in = NoOrbit
    /\ query = SimInstant_epoch
    /\ result = None
    /\ opc = "off"

\* No entity has a Parent; the build is a debug build.
HierarchyIdle ==
    /\ parented = {}
    /\ debug_assertions = TRUE

\* input.rs, lines 51-58: FocusState::default(); a Controller looking along
\* +x; no key or button pressed, no event queued, nothing left to run.
InputIdle ==
    /\ controller = [yaw |-> 0, pitch |-> 0]
    /\ focus = [window_focused |-> TRUE, grabbed |-> FALSE]
    /\ input = [frame |-> 0, keys |-> {}, left |-> FALSE, escape |-> FALSE,
                mouse |-> <<>>, focus_events |-> <<>>,
                ran |-> {"controller_system", "cursor_grab_system"}]

Init == WorldInit /\ EcsIdle /\ OrbitIdle /\ HierarchyIdle /\ InputIdle

Next ==
    \/ \E spec \in OrbitSpecs, mass \in Masses, radius \in Radii :
          AddBody(spec, mass, radius) /\ UNCHANGED <<evars, ovars, hvars, ivars>>
    \/ \E elapsed \in Elapsed : UpdateBegin(elapsed) /\ UNCHANGED <<evars, ovars, hvars, ivars>>
    \/ UpdateStep /\ UNCHANGED <<evars, ovars, hvars, ivars>>

Spec == Init /\ [][Next]_vars

-----------------------------------------------------------------------------
(* src/ecs/physics.rs *)

SIM_INTERVAL == Duration_from_millis(10)

Entities == 1..NumEntities
NoMotion == [none |-> TRUE]
NoEntity == 0

Motion_Fixed(position) == [kind |-> "Fixed", position |-> position]
Motion_Orbital(orbit) == [kind |-> "Orbital", orbit |-> orbit]

Motion_position(m, t) ==
    IF m.kind = "Fixed" THEN m.position
    ELSE Orbit3D_current_state(m.orbit, t).position

RelativeMotion(relative_to, motion) ==
    [none |-> FALSE, relative_to |-> relative_to, motion |-> motion]

\* Query<&RelativeMotion>::get(entity).is_ok()
HasRelativeMotion(rel, e) == e \in DOMAIN rel /\ ~rel[e].none

\* DVec3::as_vec3: an f32 holds every integer up to 2^24, and the even ones
\* up to 2^25 (ties to even).
AsF32(x) ==
    IF Abs(x) <= 16777216 THEN x
    ELSE LET q == RustDiv(x, 2)
         IN  IF x % 2 = 0 THEN x
             ELSE IF q % 2 = 0 THEN 2 * q ELSE 2 * (q + (IF x > 0 THEN 1 ELSE -1))
AsVec3(v) == <<AsF32(v[1]), AsF32(v[2]), AsF32(v[3])>>

\* sim_tick_system, line 36
SimTick_next(t) == SimInstant_add(t, SimDuration_from_Duration(SIM_INTERVAL))

\* motion_system, line 138: root_query.single()
\* Mutant: the query has no With<GlobalPosition> filter.
RootQuery_unfiltered(rel, glob) == {e \in Entities : ~HasRelativeMotion(rel, e)}

RootQuery(rel, glob) == {e \in glob : ~HasRelativeMotion(rel, e)}

\* HashMap::insert
HashMap_insert(map, k, v) == (k :> v) @@ map

\* Mutant: the upward walk adds the relative offsets.
Walk_next_position_added(position, rel_position) == VAdd(position, rel_position)

\* motion_system, line 155: current_position -= relative_motion.motion.position(timer.now)
Walk_next_position(position, rel_position) == VSub(position, rel_position)

\* Mutant: a descendant is placed at its parent's position minus its offset.
GetPosition_compose_subtracted(parent_position, rel_position) ==
    VSub(parent_position, rel_position)

\* get_position, line 181
GetPosition_compose(parent_position, rel_position) ==
    VAdd(parent_position, rel_position)

\* Mutant: the result is returned without being memoised.
GetPosition_memoize_nothing(map, entity, position, parent_position) == map

\* Mutant: the parent's position is memoised under the entity.
GetPosition_memoize_parent(map, entity, position, parent_position) ==
    HashMap_insert(map, entity, parent_position)

\* get_position, line 182
GetPosition_memoize(map, entity, position, parent_position) ==
    HashMap_insert(map, entity, position)

\* get_position, lines 163-184.  st carries the memo table and the count of
\* Motion::position calls; ok is FALSE when the expect of line 174 fails (or
\* the recursion does not return within fuel calls).
RECURSIVE get_position(_, _, _, _, _)
get_position(entity, t, rel, st, fuel) ==
    IF entity \in DOMAIN st.cache
    THEN [st EXCEPT !.position = st.cache[entity]]
    ELSE IF fuel = 0 \/ ~HasRelativeMotion(rel, entity)
    THEN [st EXCEPT !.ok = FALSE]
    ELSE LET r == get_position(rel[entity].relative_to, t, rel, st, fuel - 1)
             position == GetPosition_compose(r.position,
                                             Motion_position(rel[entity].motion, t))
         IN  IF ~r.ok THEN r
             ELSE [cache    |-> GetPosition_memoize(r.cache, entity, position, r.position),
                   evals    |-> [r.evals EXCEPT ![entity] = @ + 1],
                   ok       |-> TRUE,
                   position |-> position]

\* motion_system, lines 150-159: the whole upward walk from entity.
RECURSIVE upward_walk(_, _, _, _, _, _)
upward_walk(rel, t, entity, position, st, fuel) ==
    LET inserted == [st EXCEPT !.cache = HashMap_insert(st.cache, entity, position)]
    IN  IF HasRelativeMotion(rel, entity) /\ fuel > 0
        THEN upward_walk(rel, t, rel[entity].relative_to,
                         Walk_next_position(position,
                                            Motion_position(rel[entity].motion, t)),
                         [inserted EXCEPT !.evals[entity] = @ + 1], fuel - 1)
        ELSE inserted

\* motion_system, lines 185-192, global_position_query yielding in order.
RECURSIVE iterate_positions(_, _, _, _, _)
iterate_positions(rel, t, order, st, g) ==
    IF order = <<>> THEN g
    ELSE LET r == get_position(Head(order), t, rel, st, Cardinality(Entities) + 1)
         IN  iterate_positions(rel, t, Tail(order), r,
                               [g EXCEPT ![Head(order)] = r.position])

\* motion_system as one function: the GlobalPositions it leaves.
motion_system(rel, origin, t, order) ==
    iterate_positions(rel, t, order,
        upward_walk(rel, t, origin, Zero3,
                    [cache |-> <<>>, evals |-> [e \in Entities |-> 0], ok |-> TRUE,
                     position |-> Zero3],
                    Cardinality(Entities) + 1),
        [e \in Entities |-> Zero3])

(* The entities and components a run starts from: a tree of bodies, every one
   with a GlobalPosition, one of them without RelativeMotion, one carrying
   WorldOrigin. *)

FixedOf(e) == Motion_Fixed(<<10 * e, 0, e>>)
OrbitalOf(e) ==
    Motion_Orbital(Orbit3D_new(Orbit2D_new(0, e, SimInstant_epoch, 25000 * e * e),
                               e % 4, e % 2, 0))

\* Which entities move on an orbit; the others are fixed to their parent.
OrbitalSets == {{e \in Entities : e % 2 = 1}, {e \in Entities : e % 2 = 0}}

\* The entities reached from e by at most k relative_to links, e included.
RECURSIVE Chain(_, _, _)
Chain(rel, e, k) ==
    IF k = 0 \/ ~HasRelativeMotion(rel, e) THEN {e}
    ELSE {e} \cup Chain(rel, rel[e].relative_to, k - 1)

BodyTrees ==
    {rel \in [Entities -> {NoMotion} \cup
                  {[none |-> FALSE, relative_to |-> to] : to \in Entities}] :
        /\ Cardinality({e \in Entities : rel[e].none}) = 1
        /\ \A e \in Entities :
              \E root \in Chain(rel, e, NumEntities) : rel[root].none}

EcsInit ==
    /\ now = SimInstant_epoch
    /\ ticks = 0
    /\ \E tree \in BodyTrees, orbital \in OrbitalSets :
          relative = [e \in Entities |->
                         IF tree[e].none THEN NoMotion
                         ELSE RelativeMotion(tree[e].relative_to,
                                             IF e \in orbital THEN OrbitalOf(e)
                                             ELSE FixedOf(e))]
    /\ \E o \in Entities : origins = {o}
    /\ globals = Entities
    /\ gpos = [e \in Entities |-> Zero3]
    /\ translation = [e \in Entities |-> Zero3]
    /\ epc = "tick"
    /\ cache = <<>>
    /\ current_entity = NoEntity
    /\ current_position = Zero3
    /\ todo = {}
    /\ evals = [e \in Entities |-> 0]

\* Mutant: the transform system is ordered before motion_system.
PhysicsPlugin_runs_after_swapped(system) ==
    CASE system = "xform"  -> "tick"
      [] system = "motion" -> "xform"
      [] OTHER             -> "none"

\* PhysicsPlugin::build, lines 27-29: the system each system is ordered
\* .after(); sim_tick_system is ordered after none.
PhysicsPlugin_runs_after(system) ==
    CASE system = "motion" -> "tick"
      [] system = "xform"  -> "motion"
      [] OTHER             -> "none"

\* The system that starts when `done` has finished; the fixed step is over
\* when none is waiting for it, and the next step starts with the tick.
PhysicsPlugin_next(done) ==
    IF \E s \in {"motion", "xform"} : PhysicsPlugin_runs_after(s) = done
    THEN CHOOSE s \in {"motion", "xform"} : PhysicsPlugin_runs_after(s) = done
    ELSE "tick"

\* sim_tick_system
SimTick ==
    /\ epc = "tick"
    /\ ticks < MaxTicks
    /\ now' = SimTick_next(now)
    /\ ticks' = ticks + 1
    /\ epc' = PhysicsPlugin_next("tick")
    /\ UNCHANGED <<relative, origins, globals, gpos, translation, cache,
                   current_entity, current_position, todo, evals>>

\* motion_system, lines 138-149: the two single() calls and the locals.
MotionStart ==
    /\ epc = "motion"
    /\ IF Cardinality(RootQuery(relative, globals)) # 1 \/ Cardinality(origins) # 1
       THEN /\ epc' = "panicked"
            /\ UNCHANGED <<cache, current_entity, current_position, evals>>
       ELSE /\ cache' = <<>>
            /\ current_entity' = CHOOSE o \in origins : TRUE
            /\ current_position' = Zero3
            /\ evals' = [e \in Entities |-> 0]
            /\ epc' = "walk"
    /\ UNCHANGED <<now, ticks, relative, origins, globals, gpos, translation, todo>>

\* motion_system, lines 150-159: one iteration of the upward walk.  The walk
\* is followed until it arrives at an entity it has already left: the next
\* entity depends on the current one alone, so from there the loop repeats
\* without end.
WalkStep ==
    /\ epc = "walk"
    /\ current_entity \notin DOMAIN cache
    /\ cache' = HashMap_insert(cache, current_entity, current_position)
    /\ IF HasRelativeMotion(relative, current_entity)
       THEN /\ current_entity' = relative[current_entity].relative_to
            /\ current_position' =
                  Walk_next_position(current_position,
                      Motion_position(relative[current_entity].motion, now))
            /\ evals' = [evals EXCEPT ![current_entity] = @ + 1]
            /\ UNCHANGED <<epc, todo>>
       ELSE /\ epc' = "iter"
            /\ todo' = globals
            /\ UNCHANGED <<current_entity, current_position, evals>>
    /\ UNCHANGED <<now, ticks, relative, origins, globals, gpos, translation>>

\* motion_system, lines 185-192: global_position_query yields entity.
IterStep(entity) ==
    /\ epc = "iter"
    /\ entity \in todo
    /\ LET r == get_position(entity, now, relative,
                             [cache |-> cache, evals |-> evals, ok |-> TRUE,
                              position |-> Zero3],
                             Cardinality(Entities) + 1)
       IN  IF r.ok
           THEN /\ gpos' = [gpos EXCEPT ![entity] = r.position]
                /\ cache' = r.cache
                /\ evals' = r.evals
                /\ todo' = todo \ {entity}
                /\ epc' = IF todo' = {} THEN PhysicsPlugin_next("motion") ELSE "iter"
           ELSE /\ epc' = "panicked"
                /\ UNCHANGED <<gpos, cache, evals, todo>>
    /\ UNCHANGED <<now, ticks, relative, origins, globals, translation,
                   current_entity, current_position>>

\* Mutant: the assertion is compiled out of every build.
debug_assert_compiled_out(enabled, condition) == FALSE

\* debug_assert!(condition, ..), physics.rs lines 222-225 and main.rs lines
\* 162-165: it panics when the condition is false, in a build that has
\* debug_assertions; in other builds the condition is not evaluated.
debug_assert_fails(enabled, condition) == enabled /\ ~condition

\* global_position_to_transform_system, lines 217-228.  The entities are
\* yielded in some order; when the assertion fails for one of them the
\* entities yielded before it have been written and no other.
GlobalPositionToTransform ==
    /\ epc = "xform"
    /\ IF \E e \in globals : debug_assert_fails(debug_assertions, e \notin parented)
       THEN /\ \E written \in SUBSET {e \in globals :
                       ~debug_assert_fails(debug_assertions, e \notin parented)} :
                  translation' = [e \in DOMAIN translation |->
                                     IF e \in written THEN AsVec3(gpos[e])
                                     ELSE translation[e]]
            /\ epc' = "panicked"
       ELSE /\ translation' = [e \in DOMAIN translation |->
                                  IF e \in globals THEN AsVec3(gpos[e])
                                  ELSE translation[e]]
            /\ epc' = PhysicsPlugin_next("xform")
    /\ UNCHANGED <<now, ticks, relative, origins, globals, gpos, cache,
                   current_entity, current_position, todo, evals>>

EcsSpecInit == WorldInit /\ EcsInit /\ OrbitIdle /\ HierarchyIdle /\ InputIdle

EcsNext ==
    \/ SimTick /\ UNCHANGED <<wvars, ovars, hvars, ivars>>
    \/ MotionStart /\ UNCHANGED <<wvars, ovars, hvars, ivars>>
    \/ WalkStep /\ UNCHANGED <<wvars, ovars, hvars, ivars>>
    \/ (\E entity \in Entities : IterStep(entity)) /\ UNCHANGED <<wvars, ovars, hvars, ivars>>
    \/ GlobalPositionToTransform /\ UNCHANGED <<wvars, ovars, hvars, ivars>>

EcsSpec == EcsSpecInit /\ [][EcsNext]_vars

-----------------------------------------------------------------------------
(* Properties of World (src/world.rs), checked under Spec. *)

Tags == DOMAIN bodies
ParentOf(tag) == Trajectory_parent(bodies[tag].trajectory)
HasParent(tag) == ~ParentOf(tag).none

\* C1: when update_positions has completed, every body's abs_state is its own
\* trajectory state at the current world time, offset (position and velocity
\* added) by its parent's abs_state of the same pass, and a root's abs_state
\* is its own trajectory state; during the pass no body is written before its
\* parent has been.
C1_AbsStateFromParentOfSamePass ==
    /\ wpc = "updated" =>
          \A tag \in Tags :
              LET own == Trajectory_current_state(bodies[tag].trajectory, time)
                  abs == bodies[tag].abs_state
              IN  /\ abs.time = time
                  /\ IF HasParent(tag)
                     THEN LET pabs == bodies[ParentOf(tag).val].abs_state
                          IN  /\ abs.position = VAdd(own.position, pabs.position)
                              /\ abs.velocity = VAdd(own.velocity, pabs.velocity)
                              /\ pabs.time = time
                     ELSE /\ abs.position = own.position
                          /\ abs.velocity = own.velocity
    /\ wpc = "updating" =>
          \A tag \in Tags :
              (writes[tag] > 0 /\ HasParent(tag)) => writes[ParentOf(tag).val] > 0

\* A pass has completed at a later time over a chain of three bodies, the
\* innermost of which has moved with its parent.
C1_Witness ==
    /\ wpc = "updated"
    /\ time > SimInstant_epoch
    /\ \E tag \in Tags :
          /\ HasParent(tag)
          /\ HasParent(ParentOf(tag).val)
          /\ bodies[ParentOf(tag).val].abs_state.position # Zero3
          /\ bodies[tag].abs_state.position
                 # Trajectory_current_state(bodies[tag].trajectory, time).position

\* C2: one update_positions pass assigns the abs_state of every body of the
\* arena exactly once: never twice while the pass runs, and once each when it
\* has completed.
C2_EveryBodyWrittenOnce ==
    /\ DOMAIN writes = Tags
    /\ wpc = "updating" => \A tag \in Tags : writes[tag] <= 1
    /\ (wpc = "updated" /\ updates > 0) => \A tag \in Tags : writes[tag] = 1

\* A pass has completed over a full arena that has a satellite of a satellite.
C2_Witness ==
    /\ wpc = "updated"
    /\ updates > 0
    /\ Len(bodies) = MaxBodies
    /\ \E tag \in Tags : HasParent(tag) /\ HasParent(ParentOf(tag).val)

\* C7: add_body with a spec naming a parent appends the new tag to that
\* parent's satellites and leaves roots alone; with a Fixed spec it appends
\* the tag to roots and changes no satellites list; the returned tag resolves
\* to the inserted body, and every earlier tag still resolves to its body
\* (trajectory, mass, radius and abs_state unchanged).
C7_AddBodyRegisters ==
    [][ (last_add'.n # last_add.n /\ last_add'.tag # NoTag) =>
          LET tag == last_add'.tag
              par == OrbitSpec_parent(last_add'.spec)
          IN  /\ tag \notin DOMAIN bodies
              /\ DOMAIN bodies' = DOMAIN bodies \cup {tag}
              /\ bodies'[tag].mass = last_add'.mass
              /\ bodies'[tag].radius = last_add'.radius
              /\ Trajectory_parent(bodies'[tag].trajectory) = par
              /\ bodies'[tag].satellites = <<>>
              /\ \A t \in DOMAIN bodies :
                    /\ bodies'[t].trajectory = bodies[t].trajectory
                    /\ bodies'[t].mass = bodies[t].mass
                    /\ bodies'[t].radius = bodies[t].radius
                    /\ bodies'[t].abs_state = bodies[t].abs_state
                    /\ bodies'[t].satellites =
                          IF ~par.none /\ par.val = t
                          THEN Append(bodies[t].satellites, tag)
                          ELSE bodies[t].satellites
              /\ roots' = IF par.none THEN Append(roots, tag) ELSE roots
      ]_vars

\* A second satellite has been added to a body, next to a second root.
C7_Witness ==
    /\ last_add.n = MaxBodies
    /\ last_add.tag # NoTag
    /\ Len(roots) >= 1
    /\ \E t \in Tags : Len(bodies[t].satellites) = 2

RECURSIVE CountIn(_, _)
CountIn(seq, x) ==
    IF seq = <<>> THEN 0
    ELSE (IF Head(seq) = x THEN 1 ELSE 0) + CountIn(Tail(seq), x)

RECURSIVE SumSatellites(_, _)
SumSatellites(n, x) ==
    IF n = 0 THEN 0 ELSE CountIn(bodies[n].satellites, x) + SumSatellites(n - 1, x)

\* The tags met by following parent links from tag, tag excluded, at most k links.
RECURSIVE Ancestors(_, _)
Ancestors(tag, k) ==
    IF k = 0 \/ ~HasParent(tag) THEN {}
    ELSE {ParentOf(tag).val} \cup Ancestors(ParentOf(tag).val, k - 1)

\* C8: the body graph is a forest: a parent tag addresses a body inserted
\* earlier, no body is among its own ancestors, and every body occurs exactly
\* once in roots and the satellites lists together: in its parent's list if
\* it has a parent, in roots otherwise.
C8_BodyGraphIsForest ==
    wpc # "panicked" =>
      \A tag \in Tags :
        /\ HasParent(tag) => (ParentOf(tag).val \in Tags /\ ParentOf(tag).val < tag)
        /\ tag \notin Ancestors(tag, Len(bodies))
        /\ CountIn(roots, tag) + SumSatellites(Len(bodies), tag) = 1
        /\ IF HasParent(tag)
           THEN CountIn(bodies[ParentOf(tag).val].satellites, tag) = 1
           ELSE CountIn(roots, tag) = 1

\* A full arena with two roots and a satellite.
C8_Witness ==
    /\ Len(bodies) = MaxBodies
    /\ Len(roots) = 2
    /\ \E tag \in Tags : HasParent(tag)

\* C9: an add_body call whose spec names a parent that addresses no body
\* panics before inserting: the arena, roots, body_tags and every satellites
\* list are those of before the call, and nothing runs on that world again.
C9_InvalidParentRejected ==
    [][ /\ (last_add'.n # last_add.n
               /\ AddBody_lookup_fails(bodies, last_add'.spec)) =>
              /\ wpc' = "panicked"
              /\ last_add'.tag = NoTag
              /\ bodies' = bodies
              /\ roots' = roots
              /\ body_tags' = body_tags
        /\ wpc = "panicked" => UNCHANGED wvars
      ]_vars

\* add_body has panicked on a world that already held a body.
C9_Witness ==
    /\ wpc = "panicked"
    /\ Len(bodies) >= 1
    /\ last_add.spec.parent \notin Tags

-----------------------------------------------------------------------------
(* Properties of the fixed-step systems (src/ecs/physics.rs), checked under
   EcsSpec. *)

Origin == CHOOSE o \in origins : TRUE
RootEntity == CHOOSE e \in Entities : ~HasRelativeMotion(relative, e)
MotionDone == epc = "xform"

\* Two orders global_position_query can yield the entities in.
Ascending == [e \in Entities |-> e]
Descending == [e \in Entities |-> NumEntities + 1 - e]

\* C3: in one run of motion_system, Motion::position is called exactly once
\* for every entity that has a RelativeMotion (and never twice while the run
\* is under way), whichever entity is the origin and in whatever order the
\* entities are yielded.
C3_OneEvaluationPerEntity ==
    /\ epc \in {"walk", "iter", "xform"} => \A e \in Entities : evals[e] <= 1
    /\ MotionDone =>
          \A e \in Entities :
              evals[e] = IF HasRelativeMotion(relative, e) THEN 1 ELSE 0

\* A run has ended whose origin has a moving ancestor, with a body outside
\* the origin's chain that hangs below that ancestor too.
C3_Witness ==
    /\ MotionDone
    /\ HasRelativeMotion(relative, Origin)
    /\ HasRelativeMotion(relative, relative[Origin].relative_to)
    /\ \E e \in Entities \ Chain(relative, Origin, NumEntities) :
          /\ relative[e].relative_to = relative[Origin].relative_to
          /\ evals[e] = 1

\* C4: for a fixed tree, origin and SimTimer.now, the GlobalPositions at the
\* end of a run, whatever order the entities were yielded in, are those of
\* the run that yields them in ascending order, and of the run in descending
\* order: no two iteration orders end differently.
C4_IterationOrderIrrelevant ==
    MotionDone =>
        /\ motion_system(relative, Origin, now, Ascending) = gpos
        /\ motion_system(relative, Origin, now, Descending) = gpos

\* A run has ended at a later time on a tree with a chain of three entities
\* below the root, the deepest of them displaced from the origin.
C4_Witness ==
    /\ MotionDone
    /\ ticks = 2
    /\ \E e \in Entities :
          /\ Cardinality(Chain(relative, e, NumEntities)) = NumEntities
          /\ e # Origin
          /\ gpos[e] # Zero3

\* C5: after motion_system the origin's GlobalPosition is zero, and every
\* entity with a RelativeMotion is displaced from the entity it is relative
\* to by its relative position at SimTimer.now.
C5_PositionsRelativeToOrigin ==
    MotionDone =>
        /\ gpos[Origin] = Zero3
        /\ \A e \in Entities :
              HasRelativeMotion(relative, e) =>
                  VSub(gpos[e], gpos[relative[e].relative_to])
                      = Motion_position(relative[e].motion, now)

\* A run has ended with the origin below the root (its ancestor, displaced),
\* a descendant of the origin, and a body that shares only the root with it.
C5_Witness ==
    /\ MotionDone
    /\ ticks >= 1
    /\ HasRelativeMotion(relative, Origin)
    /\ relative[Origin].relative_to = RootEntity
    /\ gpos[RootEntity] # Zero3
    /\ \E d \in Entities : HasRelativeMotion(relative, d)
                           /\ relative[d].relative_to = Origin
    /\ \E s \in Entities \ {Origin} :
          HasRelativeMotion(relative, s) /\ relative[s].relative_to = RootEntity

\* C6: the positions resolved with the origin at A and with the origin at B,
\* for the same tree and time, differ by one vector for every body x:
\* pos_A(x) - pos_B(x) = pos_A(B).
C6_OriginShiftIsConstant ==
    MotionDone =>
        \A b \in Entities :
            LET pos_b == motion_system(relative, b, now, Ascending)
            IN  \A x \in Entities : VSub(gpos[x], pos_b[x]) = gpos[b]

\* A run has ended in which some body is displaced from the origin, so that
\* moving the origin there shifts every position.
C6_Witness ==
    /\ MotionDone
    /\ ticks >= 1
    /\ \E b \in Entities :
          /\ gpos[b] # Zero3
          /\ Origin \notin Chain(relative, b, NumEntities)
          /\ b \notin Chain(relative, Origin, NumEntities)

\* C10: after n runs of sim_tick_system from SimTimer::new() the clock reads
\* the epoch plus n * 10000 microseconds.
C10_ClockIsTicksTimesInterval ==
    now = SimInstant_epoch + ticks * 10000

\* The clock after the last tick of the run.
C10_Witness ==
    /\ ticks = MaxTicks
    /\ now > SimInstant_epoch
    /\ epc = "tick"

-----------------------------------------------------------------------------
(* src/time.rs at the full width of the counter.

   SimInstant.micros is an i64.  ClockSpec keeps it exactly, as three limbs
   of 21 bits (value = hi * 2^42 + mid * 2^21 + lo, hi signed), and runs
   sim_tick_system and World::update on an empty World from the epoch and
   from instants within a few steps of i64::MAX, which a long enough run of
   either clock reaches.  An addition that leaves the range panics in a
   build with overflow checks and wraps in one without. *)

I64_LIMB == 2097152

I64_HI_MAX == (I64_LIMB \div 2) - 1

I64_from_micros(n) == [hi |-> 0, mid |-> n \div I64_LIMB, lo |-> n % I64_LIMB]

I64_MAX == [hi |-> I64_HI_MAX, mid |-> I64_LIMB - 1, lo |-> I64_LIMB - 1]

\* i64::MAX - n, for 0 <= n < 2^21
I64_below_max(n) == [I64_MAX EXCEPT !.lo = @ - n]

\* The limbs of a + d before the range check, d a duration of 0 .. 2^31 - 1
\* microseconds.
I64_sum(a, d) ==
    LET lo  == a.lo + (d % I64_LIMB)
        mid == a.mid + (d \div I64_LIMB) + (lo \div I64_LIMB)
    IN  [hi |-> a.hi + (mid \div I64_LIMB), mid |-> mid % I64_LIMB, lo |-> lo % I64_LIMB]

\* i64::checked_add(..).is_none()
I64_add_overflows(a, d) == I64_sum(a, d).hi > I64_HI_MAX

\* i64::wrapping_add: two's complement, 2^63 wraps to -2^63.
I64_wrapping_add(a, d) ==
    LET s == I64_sum(a, d)
    IN  IF s.hi > I64_HI_MAX THEN [s EXCEPT !.hi = @ - I64_LIMB] ELSE s

\* The derived Ord of SimInstant
I64_le(a, b) ==
    \/ a.hi < b.hi
    \/ a.hi = b.hi /\ a.mid < b.mid
    \/ a.hi = b.hi /\ a.mid = b.mid /\ a.lo <= b.lo

\* Microseconds left before i64::MAX at the start of a run.
Headroom == {0, 9999, 10000, 25000}

ClockStarts == {I64_from_micros(SimInstant_epoch)} \cup {I64_below_max(n) : n \in Headroom}

ClockInit ==
    /\ bodies = <<>>
    /\ roots = <<>>
    /\ body_tags = <<>>
    /\ time \in ClockStarts
    /\ last_update = 0
    /\ wpc = "idle"
    /\ pending = <<>>
    /\ writes = <<>>
    /\ updates = 0
    /\ last_add = [n |-> 0]
    /\ now \in ClockStarts
    /\ ticks = 0
    /\ relative = <<>>
    /\ origins = {}
    /\ globals = {}
    /\ gpos = <<>>
    /\ translation = <<>>
    /\ epc = "tick"
    /\ cache = <<>>
    /\ current_entity = NoEntity
    /\ current_position = Zero3
    /\ todo = {}
    /\ evals = <<>>
    /\ OrbitIdle
    /\ HierarchyIdle
    /\ InputIdle

\* sim_tick_system, line 36: timer.now += SIM_INTERVAL.into()
ClockSimTick ==
    /\ epc = "tick"
    /\ ticks < MaxTicks
    /\ ticks' = ticks + 1
    /\ LET d == SimDuration_from_Duration(SIM_INTERVAL)
       IN  IF I64_add_overflows(now, d)
           THEN \/ now' = now /\ epc' = "panicked"
                \/ now' = I64_wrapping_add(now, d) /\ epc' = "tick"
           ELSE now' = I64_wrapping_add(now, d) /\ epc' = "tick"
    /\ UNCHANGED <<relative, origins, globals, gpos, translation, cache,
                   current_entity, current_position, todo, evals>>

\* World::update, lines 118-123, on a World without bodies
ClockUpdate(elapsed) ==
    /\ wpc \in {"idle", "updated"}
    /\ updates < MaxUpdates
    /\ updates' = updates + 1
    /\ LET dt == Update_dt(elapsed)
       IN  IF I64_add_overflows(time, dt)
           THEN \/ time' = time /\ wpc' = "panicked" /\ UNCHANGED last_update
                \/ /\ time' = I64_wrapping_add(time, dt)
                   /\ last_update' = last_update + elapsed
                   /\ wpc' = "updated"
           ELSE /\ time' = I64_wrapping_add(time, dt)
                /\ last_update' = last_update + elapsed
                /\ wpc' = "updated"
    /\ UNCHANGED <<bodies, roots, body_tags, pending, writes, last_add>>

ClockNext ==
    \/ ClockSimTick /\ UNCHANGED <<wvars, ovars, hvars, ivars>>
    \/ (\E elapsed \in Elapsed : ClockUpdate(elapsed)) /\ UNCHANGED <<evars, ovars, hvars, ivars>>

ClockSpec == ClockInit /\ [][ClockNext]_vars

\* C11: over any sequence of sim_tick_system runs and World::update calls
\* neither SimTimer.now nor World.time ever decreases, up to the limit of
\* the i64 counter.
C11_TimeNeverDecreases ==
    [][I64_le(now, now') /\ I64_le(time, time')]_vars

-----------------------------------------------------------------------------
(* Further properties of World (src/world.rs), checked under Spec. *)

\* C12: a World::update call advances World.time by a step that does not
\* depend on the wall-clock time elapsed since the previous call: whatever
\* elapsed, the new time is the one any other elapsed time would have given,
\* so the time after k calls depends on k alone.
C12_UpdateStepIgnoresWallClock ==
    [][updates' = updates + 1 =>
          \A elapsed \in Elapsed : time' = SimInstant_add(time, Update_dt(elapsed))]_vars

-----------------------------------------------------------------------------
(* Further properties of the fixed step (src/ecs/physics.rs), checked under
   EcsSpec. *)

\* The translations global_position_to_transform_system writes from the
\* GlobalPositions motion_system resolves for time t.
TranslationsAt(t) ==
    LET g == motion_system(relative, Origin, t, Ascending)
    IN  [e \in Entities |-> AsVec3(g[e])]

\* C13: the systems of a fixed step run in the order tick, motion, transform.
\* When a step has ended every Transform translation comes from the
\* GlobalPositions of that step's SimTimer.now; while a step is under way
\* (the clock already advanced, the positions being resolved) every
\* translation is still the one of the previous step, and the transform
\* system starts only when motion_system has yielded every entity.
C13_TransformsAreOfOneStep ==
    /\ (epc = "tick" /\ ticks >= 1) => translation = TranslationsAt(now)
    /\ (epc \in {"motion", "walk", "iter", "xform"} /\ ticks >= 2) =>
          translation =
              TranslationsAt(now - SimDuration_from_Duration(SIM_INTERVAL))
    /\ (epc \in {"motion", "walk", "iter", "xform"} /\ ticks = 1) =>
          translation = [e \in Entities |-> Zero3]
    /\ epc = "xform" => (todo = {} /\ gpos = motion_system(relative, Origin, now, Ascending))

\* The second step has ended with a body on an orbit whose translation
\* differs from the one the first step wrote.
C13_Witness ==
    /\ epc = "tick"
    /\ ticks = 2
    /\ \E e \in Entities :
          /\ translation[e] # Zero3
          /\ translation[e] #
                TranslationsAt(now - SimDuration_from_Duration(SIM_INTERVAL))[e]

\* C14: a step of World::update or of its update_positions pass leaves roots,
\* body_tags and the set of bodies as they were, and of every body its
\* trajectory (parent and orbital elements), mass, radius and satellites;
\* only time, last_update and abs_state change.
C14_UpdateFrame ==
    [][updates' >= 1 =>
          /\ roots' = roots
          /\ body_tags' = body_tags
          /\ DOMAIN bodies' = DOMAIN bodies
          /\ \A tag \in DOMAIN bodies :
                /\ bodies'[tag].trajectory = bodies[tag].trajectory
                /\ bodies'[tag].mass = bodies[tag].mass
                /\ bodies'[tag].radius = bodies[tag].radius
                /\ bodies'[tag].satellites = bodies[tag].satellites]_vars

\* Two updates have completed on a world of three bodies, one of them with a
\* satellite on an orbit, and the abs_states are those of the second update.
C14_Witness ==
    /\ wpc = "updated"
    /\ updates = 2
    /\ Len(bodies) = 3
    /\ \E tag \in Tags :
          /\ bodies[tag].satellites # <<>>
          /\ bodies[tag].abs_state.time = time
          /\ \E s \in Tags : /\ ParentOf(s) = Some(tag)
                             /\ bodies[s].trajectory.orbit # NoOrbit
                             /\ bodies[s].abs_state.time = time
    /\ time > SimInstant_epoch

-----------------------------------------------------------------------------
(* src/ecs/input.rs: the "input" system set, controller_system and
   cursor_grab_system, which run once in a frame's fixed step in either order.

   bevy refreshes Input<KeyCode>, Input<MouseButton> and the event queues at
   the start of a frame; each system reads them once.  The entity carrying
   the Controller is the camera, here the WorldOrigin, with a Motion::Fixed:
   the Orbital arm goes through Orbit3D::update_from_current_state, which is
   not among the sources.  Lengths moved by the controller are in hundredths;
   yaw and pitch are in mouse dots of SENSITIVITY = 0.2 degrees, so that a
   quarter turn is 450 dots and a full turn 1800. *)

ControllerEntity == NumEntities

\* lines 83-91 and 101-119 for a Motion::Fixed camera, the yaw in quarter
\* turns: the sum of the directions of the pressed keys.  The axis-aligned
\* directions do not depend on the pitch.
Controller_delta(keys, yaw) ==
    LET forward == RotZ(<<1, 0, 0>>, yaw)
        up      == <<0, 0, 1>>
        right   == VCross(forward, up)
        dir(key, v) == IF key \in keys THEN v ELSE Zero3
    IN  VAdd(VSub(dir("W", forward), dir("S", forward)),
             VAdd(VSub(dir("D", right), dir("A", right)),
                  VSub(dir("Space", up), dir("LShift", up))))

\* lines 100 and 120-123: *position += delta * MOVE_SPEED * SIM_INTERVAL,
\* 3.0 m/s over 10 ms.
Controller_move(motion, grabbed, focused, delta) ==
    IF grabbed /\ focused /\ motion.kind = "Fixed"
    THEN Motion_Fixed(VAdd(motion.position, <<3 * delta[1], 3 * delta[2], 3 * delta[3]>>))
    ELSE motion

\* lines 70-81: the loop over the MouseMotion events.  yaw %= TAU keeps the
\* sign of the yaw; the pitch is clamped short of a quarter turn.
RECURSIVE Controller_look(_, _, _)
Controller_look(ctl, fs, events) ==
    IF events = <<>> THEN ctl
    ELSE LET event == Head(events)
             pitch == ctl.pitch - event.y
             next  == IF fs.grabbed /\ fs.window_focused
                      THEN [yaw   |-> RustRem(ctl.yaw - event.x, 1800),
                            pitch |-> IF pitch < -449 THEN -449
                                      ELSE IF pitch > 449 THEN 449 ELSE pitch]
                      ELSE ctl
         IN  Controller_look(next, fs, Tail(events))

\* Mutant: a left click in the same step overrides Escape.
FocusState_after_click_last(fs, focus_events, left, escape) ==
    [window_focused |-> IF focus_events = <<>> THEN fs.window_focused
                        ELSE focus_events[Len(focus_events)],
     grabbed |-> IF left THEN TRUE ELSE IF escape THEN FALSE ELSE fs.grabbed]

\* cursor_grab_system, lines 151-167: the WindowFocused events of the primary
\* window in order, then the left click, then Escape.
FocusState_after(fs, focus_events, left, escape) ==
    [window_focused |-> IF focus_events = <<>> THEN fs.window_focused
                        ELSE focus_events[Len(focus_events)],
     grabbed |-> IF escape THEN FALSE ELSE IF left THEN TRUE ELSE fs.grabbed]

\* The camera stays within MaxMoves controller steps of where it was set up.
WithinReach(motion) ==
    \A i \in 1..3 :
        Abs(motion.position[i] - FixedOf(ControllerEntity).position[i]) <= 3 * MaxMoves

\* The bodies hang on entity 1 and the camera, fixed to it, is the WorldOrigin.
InputInit ==
    /\ WorldInit /\ EcsInit /\ OrbitIdle /\ HierarchyIdle /\ InputIdle
    /\ origins = {ControllerEntity}
    /\ ~HasRelativeMotion(relative, 1)
    /\ \A e \in Entities \ {1} :
          HasRelativeMotion(relative, e) /\ relative[e].relative_to = 1
    /\ relative[ControllerEntity].motion.kind = "Fixed"

\* A frame begins: bevy replaces the pressed keys, the just-pressed button and
\* key and the queued events, and both systems are due.
NewFrame(keys, left, escape, mouse, focus_events) ==
    /\ input.frame < MaxFrames
    /\ input.ran = {"controller_system", "cursor_grab_system"}
    /\ input' = [frame |-> input.frame + 1, keys |-> keys, left |-> left,
                 escape |-> escape, mouse |-> mouse,
                 focus_events |-> focus_events, ran |-> {}]
    /\ UNCHANGED <<controller, focus>>

\* controller_system, lines 61-136, but for the Transform's rotation
ControllerSystem ==
    /\ "controller_system" \notin input.ran
    /\ epc # "panicked"
    /\ IF ~HasRelativeMotion(relative, ControllerEntity)
       THEN epc' = "panicked" /\ UNCHANGED <<relative, controller>>
       ELSE LET looked == Controller_look(controller, focus, input.mouse)
                moved  == Controller_move(relative[ControllerEntity].motion,
                              focus.grabbed, focus.window_focused,
                              Controller_delta(input.keys, looked.yaw \div 450))
            IN  /\ WithinReach(moved)
                /\ controller' = looked
                /\ relative' = [relative EXCEPT ![ControllerEntity].motion = moved]
                /\ UNCHANGED epc
    /\ input' = [input EXCEPT !.ran = @ \cup {"controller_system"}]
    /\ UNCHANGED <<now, ticks, origins, globals, gpos, translation, cache,
                   current_entity, current_position, todo, evals, focus>>

\* cursor_grab_system, lines 142-168
CursorGrabSystem ==
    /\ "cursor_grab_system" \notin input.ran
    /\ epc # "panicked"
    /\ focus' = FocusState_after(focus, input.focus_events, input.left, input.escape)
    /\ input' = [input EXCEPT !.ran = @ \cup {"cursor_grab_system"}]
    /\ UNCHANGED <<evars, controller>>

InputNext ==
    \/ (\E keys \in {{}, {"W"}, {"S"}}, left \in BOOLEAN, escape \in BOOLEAN,
           mouse \in {<<>>, <<[x |-> 450, y |-> 300]>>,
                      <<[x |-> 450, y |-> 300], [x |-> 0, y |-> 300]>>},
           focus_events \in {<<>>, <<FALSE>>, <<FALSE, TRUE>>} :
           NewFrame(keys, left, escape, mouse, focus_events))
          /\ UNCHANGED <<wvars, evars, ovars, hvars>>
    \/ ControllerSystem /\ UNCHANGED <<wvars, ovars, hvars>>
    \/ CursorGrabSystem /\ UNCHANGED <<wvars, ovars, hvars>>

InputSpec == InputInit /\ [][InputNext]_vars

C30_LookAndGrabGated ==
    [][/\ ~(focus.grabbed /\ focus.window_focused)
            => controller' = controller /\ relative' = relative
       /\ (~focus.grabbed /\ focus'.grabbed) => (input.left /\ ~input.escape)
       /\ (focus.grabbed /\ ~focus'.grabbed) => input.escape
       /\ ("cursor_grab_system" \in input'.ran \ input.ran)
            => /\ input.escape => ~focus'.grabbed
               /\ (input.left /\ ~input.escape) => focus'.grabbed]_vars

\* Both systems ran in a frame with a key held, mouse motion queued and both
\* the left click and Escape, and the camera is where it was set up.
C30_Witness ==
    /\ input.ran = {"controller_system", "cursor_grab_system"}
    /\ input.keys # {} /\ input.mouse # <<>>
    /\ input.left /\ input.escape
    /\ ~focus.grabbed
    /\ controller = [yaw |-> 0, pitch |-> 0]
    /\ relative[ControllerEntity].motion = FixedOf(ControllerEntity)

-----------------------------------------------------------------------------
(* src/orbit.rs as functions: OrbitFnSpec draws an Orbit3D and applies one of
   Orbit2D::period with the three regime tests, Orbit2D::current_state at the
   periapsis epoch and one period later, and the round trip through
   Orbit3D::from_current_state. *)

\* Microseconds from the periapsis epoch to a round-trip query.
QueryOffsets == {0, 400000, -400000}

\* The orbits: e in hundredths on both sides of each regime boundary; (p, grav)
\* chosen so that h, the apsides and the speeds at them are integers; three
\* periapsis epochs; equatorial and inclined orientations.
OrbitInputs ==
    {Orbit3D_new(Orbit2D_new(e, sz.p, t0, sz.grav), a.arg_pe, a.inc, a.lan) :
        e \in {-50, 0, 50, 100, 150},
        sz \in {[p |-> 3, grav |-> 1200], [p |-> 6, grav |-> 9600]},
        t0 \in {SimInstant_epoch, -7, 1000003},
        a \in {[arg_pe |-> 0, inc |-> 0, lan |-> 0], [arg_pe |-> 0, inc |-> 1, lan |-> 0],
               [arg_pe |-> 1, inc |-> 1, lan |-> 0], [arg_pe |-> 1, inc |-> 1, lan |-> 1]}}

OrbitFnInit ==
    /\ WorldInit
    /\ EcsIdle
    /\ HierarchyIdle
    /\ InputIdle
    /\ orbit_in \in OrbitInputs
    /\ query = SimInstant_epoch
    /\ result = None
    /\ opc = "ready"

\* is_elliptic, is_parabolic, is_hyperbolic and period
OrbitClassify ==
    /\ opc = "ready"
    /\ result' = [elliptic   |-> Orbit2D_is_elliptic(orbit_in.shape),
                  parabolic  |-> Orbit2D_is_parabolic(orbit_in.shape),
                  hyperbolic |-> Orbit2D_is_hyperbolic(orbit_in.shape),
                  period     |-> Orbit2D_period(orbit_in.shape)]
    /\ opc' = "classified"
    /\ UNCHANGED <<orbit_in, query>>

\* current_state(t0) and current_state(t0 + period()) of a periodic orbit
OrbitPeriodic ==
    /\ opc = "ready"
    /\ ~Orbit2D_period(orbit_in.shape).none
    /\ LET shape == orbit_in.shape
           later == SimInstant_add(shape.t0, Orbit2D_period(shape).val)
       IN  /\ query' = later
           /\ result' = [first          |-> Orbit2D_current_state(shape, shape.t0),
                         second         |-> Orbit2D_current_state(shape, later),
                         elapsed_first  |-> Orbit2D_elapsed(shape, shape.t0),
                         elapsed_second |-> Orbit2D_elapsed(shape, later)]
    /\ opc' = "periodic"
    /\ UNCHANGED orbit_in

\* orbit.current_state(t), from_current_state of it, and current_state(t) of
\* the orbit determined
OrbitRoundTrip(offset) ==
    /\ opc = "ready"
    /\ LET t      == SimInstant_add(orbit_in.shape.t0, offset)
           state  == Orbit3D_current_state(orbit_in, t)
           orbit2 == Orbit3D_from_current_state(state, orbit_in.shape.grav)
       IN  /\ query' = t
           /\ result' = [state  |-> state,
                         orbit2 |-> orbit2,
                         again  |-> Orbit3D_current_state(orbit2, t)]
    /\ opc' = "roundtrip"
    /\ UNCHANGED orbit_in

\* current_state(t), lines 109-113: the elapsed time it hands to chi, for a
\* query a few microseconds, a few periods or half an hour from t0 on
\* either side.
OrbitElapsed(offset) ==
    /\ opc = "ready"
    /\ LET t == SimInstant_add(orbit_in.shape.t0, offset)
       IN  /\ query' = t
           /\ result' = [elapsed |-> Orbit2D_elapsed(orbit_in.shape, t),
                         period  |-> Orbit2D_period(orbit_in.shape)]
    /\ opc' = "elapsed"
    /\ UNCHANGED orbit_in

\* Orbit2D::new, lines 20-22, and Orbit2D::from_apsides, lines 24-28: both
\* return Self; result is what the caller is handed for the elements.
OrbitConstruct(built) ==
    /\ opc = "ready"
    /\ result' = Some(built)
    /\ opc' = "constructed"
    /\ UNCHANGED <<orbit_in, query>>

\* a(), lines 52-55, b(), lines 57-60, and period() as f64 computes them, for
\* every eccentricity: a = p / (1 - e^2), b = p / sqrt(1 - e^2), the square
\* root of a negative number being NaN.  e is in hundredths.
OrbitAxes ==
    /\ opc = "ready"
    /\ LET shape == orbit_in.shape
           d     == 10000 - shape.e * shape.e
       IN  result' = [a |-> F64_div(shape.p * 10000, d),
                      b |-> IF d < 0 THEN F64_NAN
                            ELSE F64_div(shape.p * 100, ISqrt(d)),
                      period |-> Orbit2D_period(shape)]
    /\ opc' = "axes"
    /\ UNCHANGED <<orbit_in, query>>

OrbitFnNext ==
    \/ OrbitClassify /\ UNCHANGED <<wvars, evars, hvars, ivars>>
    \/ OrbitAxes /\ UNCHANGED <<wvars, evars, hvars, ivars>>
    \/ (\E e \in {-50, 50}, p \in {-3, 0, 3}, grav \in {-1200, 0, 1200} :
           OrbitConstruct(Orbit2D_new(e, p, orbit_in.shape.t0, grav)))
          /\ UNCHANGED <<wvars, evars, hvars, ivars>>
    \/ (\E ap \in {<<7, 1>>, <<-7, -1>>}, grav \in {0, 1200} :
           OrbitConstruct(Orbit2D_from_apsides(ap[1], ap[2], orbit_in.shape.t0, grav)))
          /\ UNCHANGED <<wvars, evars, hvars, ivars>>
    \/ (\E offset \in {0, 1, -1, 5000000, -5000000, 2000000000, -2000000000} :
           OrbitElapsed(offset)) /\ UNCHANGED <<wvars, evars, hvars, ivars>>
    \/ OrbitPeriodic /\ UNCHANGED <<wvars, evars, hvars, ivars>>
    \/ (\E offset \in QueryOffsets : OrbitRoundTrip(offset)) /\ UNCHANGED <<wvars, evars, hvars, ivars>>

OrbitFnSpec == OrbitFnInit /\ [][OrbitFnNext]_vars

\* C16: period() is Some exactly when e < 1 and None when e = 1 or e > 1, and
\* exactly one of is_elliptic (e < 1), is_parabolic (e = 1), is_hyperbolic
\* (e > 1) is true.
C16_PeriodIffElliptic ==
    opc = "classified" =>
        LET e == orbit_in.shape.e
        IN  /\ ~result.period.none <=> e < 100
            /\ result.elliptic <=> e < 100
            /\ result.parabolic <=> e = 100
            /\ result.hyperbolic <=> e > 100
            /\ Cardinality({f \in {"elliptic", "parabolic", "hyperbolic"} : result[f]}) = 1

\* A parabolic orbit has been classified: no period, and parabolic only.
C16_Witness ==
    /\ opc = "classified"
    /\ orbit_in.shape.e = 100
    /\ result.period.none
    /\ result.parabolic

\* C17: for an elliptic orbit the queries at t0 and at t0 + period() hand the
\* same elapsed time to the solver and return the same position and velocity,
\* whatever t0.
C17_SameStateOnePeriodLater ==
    opc = "periodic" =>
        /\ orbit_in.shape.e < 100
        /\ result.elapsed_first = result.elapsed_second
        /\ result.first.position = result.second.position
        /\ result.first.velocity = result.second.velocity

\* An eccentric orbit with a periapsis epoch other than the epoch has been
\* queried one period after it.
C17_Witness ==
    /\ opc = "periodic"
    /\ orbit_in.shape.e = 50
    /\ orbit_in.shape.t0 = 1000003
    /\ query > orbit_in.shape.t0 + 1000000
    /\ result.second.velocity # Zero3

\* An orbit the determination is defined for: a periapsis direction (e > 0)
\* and a line of nodes (inclined to the reference plane).
NonDegenerate(o) ==
    /\ o.shape.e > 0
    /\ o.shape.p > 0
    /\ o.shape.grav > 0
    /\ o.inc % 2 = 1

\* C18: for a non-degenerate orbit and a sampled time t, the orbit determined
\* from current_state(t) has that position and velocity at t.
C18_RoundTrip ==
    (opc = "roundtrip" /\ NonDegenerate(orbit_in)) =>
        /\ result.again.position = result.state.position
        /\ result.again.velocity = result.state.velocity


\* The eccentricity vector of a state, in hundredths:
\* ((|v|^2 - grav / |r|) r - (r . v) v) / grav.
EccentricityVector(state, grav) ==
    LET r     == state.position
        v     == state.velocity
        r_mag == VLength(r)
        k     == VDot(v, v) - (IF r_mag = 0 THEN 0 ELSE grav \div r_mag)
    IN  [i \in 1..3 |-> RustDiv(100 * (k * r[i] - VDot(r, v) * v[i]), grav)]

\* C26: the eccentricity from_current_state gives the orbit it determines is
\* the length of the eccentricity vector of the state, whose second term is
\* weighted by r . v.
C26_EccentricityVectorUsesDot ==
    opc = "roundtrip" =>
        result.orbit2.shape.e =
            VLength(EccentricityVector(result.state, orbit_in.shape.grav))

\* C27: constructing an Orbit2D from a non-positive semi-latus rectum, a
\* negative eccentricity or a non-positive gravitational parameter fails: the
\* caller is handed no orbit value.
C27_InvalidElementsRejected ==
    (opc = "constructed" /\ ~result.none) =>
        /\ result.val.p > 0
        /\ result.val.e >= 0
        /\ result.val.grav > 0

\* C28: for a parabolic orbit a() and b() return NaN and period() returns
\* None.
C28_ParabolicAxesNotApplicable ==
    (opc = "axes" /\ orbit_in.shape.e = 100) =>
        /\ result.a.nan
        /\ result.b.nan
        /\ result.period.none

-----------------------------------------------------------------------------
(* The fixed step of src/ecs/physics.rs over every configuration of
   relative_to links, cyclic ones included: nothing in the sources keeps a
   RelativeMotion from naming an entity that is relative to it.  WorldOrigin
   is on no entity, on one or on two, and entity 2 has a GlobalPosition or
   has none. *)

LinkInit ==
    /\ WorldInit
    /\ OrbitIdle
    /\ HierarchyIdle
    /\ InputIdle
    /\ now = SimInstant_epoch
    /\ ticks = 0
    /\ \E links \in [Entities -> {NoEntity} \cup Entities] :
          relative = [e \in Entities |->
                         IF links[e] = NoEntity THEN NoMotion
                         ELSE RelativeMotion(links[e], FixedOf(e))]
    /\ origins \in {os \in SUBSET Entities : Cardinality(os) <= 2}
    /\ globals \in {Entities, Entities \ {2}}
    /\ gpos = [e \in Entities |-> Zero3]
    /\ translation = [e \in Entities |-> Zero3]
    /\ epc = "tick"
    /\ cache = <<>>
    /\ current_entity = NoEntity
    /\ current_position = Zero3
    /\ todo = {}
    /\ evals = [e \in Entities |-> 0]

LinkSpec == LinkInit /\ [][EcsNext]_vars

\* C19: whatever the relative_to links are, the upward walk from the
\* WorldOrigin entity ends at an entity without RelativeMotion: every entity
\* it arrives at is one it has not visited, so it is over within NumEntities
\* iterations (a walk that arrives at a visited entity repeats for ever).
C19_WalkReachesRoot ==
    epc = "walk" => current_entity \notin DOMAIN cache


\* Whether get_position(entity) comes, going up the relative_to links, to an
\* entity that is neither memoized nor has a RelativeMotion (or to no end).
RECURSIVE Unresolvable(_, _)
Unresolvable(entity, fuel) ==
    IF entity \in DOMAIN cache THEN FALSE
    ELSE IF fuel = 0 \/ ~HasRelativeMotion(relative, entity) THEN TRUE
    ELSE Unresolvable(relative[entity].relative_to, fuel - 1)

\* C29: motion_system goes on to its walk only with exactly one root (an
\* entity with GlobalPosition and no RelativeMotion) and exactly one
\* WorldOrigin entity, and otherwise fails with every GlobalPosition as it
\* was; and it fails, rather than resolve the entity, when the resolution of
\* an entity with GlobalPosition comes to an entity that is not memoized and
\* has no RelativeMotion, and fails in the iteration for no other reason.
C29_MotionSystemRequirements ==
    [][/\ epc = "motion" =>
             IF /\ Cardinality({e \in globals : ~HasRelativeMotion(relative, e)}) = 1
                /\ Cardinality(origins) = 1
             THEN epc' = "walk"
             ELSE epc' = "panicked" /\ gpos' = gpos
       /\ epc = "iter" =>
             /\ \A entity \in todo :
                   Unresolvable(entity, NumEntities + 1) => todo' # todo \ {entity}
             /\ epc' = "panicked" =>
                   \E entity \in todo : Unresolvable(entity, NumEntities + 1)]_vars

\* With one root and one WorldOrigin the walk has ended at an entity without
\* GlobalPosition, and the resolution of the root has failed.
C29_Witness ==
    /\ epc = "panicked"
    /\ Cardinality(origins) = 1
    /\ Cardinality({e \in globals : ~HasRelativeMotion(relative, e)}) = 1
    /\ cache # <<>>
    /\ \E e \in globals : ~HasRelativeMotion(relative, e) /\ e \notin DOMAIN cache

-----------------------------------------------------------------------------
(* The fixed step of src/main.rs, which keeps its own systems: an entity's
   OrbitalTrajectory { parent, orbit } is relative[e], its Position is gpos[e],
   its Transform's translation is translation[e], TransformOrigin marks the
   entities of origins, and visited is cache.  The systems run in the order of
   their .after() (lines 409-412): "mtick", "orbit", "abs", then "absiter"
   once for each entity objects_query yields. *)

\* setup-like scenes: a tree of bodies, each with a Position and a Transform,
\* every body but the parent-less one on an OrbitalTrajectory; one of them
\* carries TransformOrigin.
MainInit ==
    /\ now = SimInstant_epoch
    /\ ticks = 0
    /\ \E tree \in BodyTrees :
          relative = [e \in Entities |->
                         IF tree[e].none THEN NoMotion
                         ELSE RelativeMotion(tree[e].relative_to, OrbitalOf(e))]
    /\ \E o \in Entities : origins = {o}
    /\ globals = Entities
    /\ gpos = [e \in Entities |->
                  IF HasRelativeMotion(relative, e) THEN Zero3 ELSE <<10 * e, 0, e>>]
    /\ translation = [e \in Entities |-> Zero3]
    /\ epc = "mtick"
    /\ cache = <<>>
    /\ current_entity = NoEntity
    /\ current_position = Zero3
    /\ todo = {}
    /\ evals = [e \in Entities |-> 0]

\* main.rs sim_tick_system, lines 41-43
Main_sim_tick_system ==
    /\ epc = "mtick"
    /\ ticks < MaxTicks
    /\ now' = SimInstant_add(now, SimDuration_from_Duration(SIM_INTERVAL))
    /\ ticks' = ticks + 1
    /\ epc' = "orbit"
    /\ UNCHANGED <<relative, origins, globals, gpos, translation, cache,
                   current_entity, current_position, todo, evals>>

\* orbit_system, lines 98-116: the Position of every entity on an
\* OrbitalTrajectory becomes its orbit's position at timer.now.
orbit_system ==
    /\ epc = "orbit"
    /\ gpos' = [e \in DOMAIN gpos |->
                   IF HasRelativeMotion(relative, e)
                   THEN Orbit3D_current_state(relative[e].motion.orbit, now).position
                   ELSE gpos[e]]
    /\ epc' = "abs"
    /\ UNCHANGED <<now, ticks, relative, origins, globals, translation, cache,
                   current_entity, current_position, todo, evals>>

\* absolute_position_inner, lines 149-188.  transform is the translation of
\* the Transform the call was handed; the recursive call for the orbit parent
\* is handed the same one.
RECURSIVE absolute_position_inner(_, _, _, _, _, _, _)
absolute_position_inner(entity, transform, origin, absolute_positions, orbits, positions, fuel) ==
    IF entity \in DOMAIN absolute_positions
    THEN [position |-> absolute_positions[entity], transform |-> transform,
          absolute_positions |-> absolute_positions, ok |-> TRUE]
    ELSE IF debug_assert_fails(debug_assertions, entity \notin parented)
    THEN [position |-> Zero3, transform |-> transform,
          absolute_positions |-> absolute_positions, ok |-> FALSE]
    ELSE LET parent ==
                 IF HasRelativeMotion(orbits, entity) /\ fuel > 0
                 THEN absolute_position_inner(orbits[entity].relative_to, transform,
                          origin, absolute_positions, orbits, positions, fuel - 1)
                 ELSE [position |-> Zero3, transform |-> transform,
                       absolute_positions |-> absolute_positions, ok |-> TRUE]
             absolute_position ==
                 VSub(VAdd(positions[entity], parent.position), origin)
         IN  IF ~parent.ok THEN parent
             ELSE [position |-> absolute_position,
                   transform |-> AsVec3(absolute_position),
                   absolute_positions |->
                       HashMap_insert(parent.absolute_positions, entity,
                                      absolute_position),
                   ok |-> TRUE]

\* absolute_position_system, lines 129-133: the origin's Position, or return.
absolute_position_start ==
    /\ epc = "abs"
    /\ IF Cardinality(origins) = 1
       THEN /\ cache' = <<>>
            /\ todo' = globals
            /\ epc' = "absiter"
       ELSE /\ epc' = "mtick"
            /\ UNCHANGED <<cache, todo>>
    /\ UNCHANGED <<now, ticks, relative, origins, globals, gpos, translation,
                   current_entity, current_position, evals>>

\* absolute_position_system, lines 135-146: objects_query yields entity.
absolute_position_system(entity) ==
    /\ epc = "absiter"
    /\ entity \in todo
    /\ LET origin == gpos[CHOOSE o \in origins : TRUE]
           r == absolute_position_inner(entity, translation[entity], origin, cache,
                                        relative, gpos, NumEntities)
       IN  IF r.ok
           THEN /\ translation' = [translation EXCEPT ![entity] = r.transform]
                /\ cache' = r.absolute_positions
                /\ todo' = todo \ {entity}
                /\ epc' = IF todo' = {} THEN "mtick" ELSE "absiter"
           ELSE /\ epc' = "panicked"
                /\ UNCHANGED <<translation, cache, todo>>
    /\ UNCHANGED <<now, ticks, relative, origins, globals, gpos,
                   current_entity, current_position, evals>>

MainNext ==
    \/ Main_sim_tick_system /\ UNCHANGED <<wvars, ovars, hvars, ivars>>
    \/ orbit_system /\ UNCHANGED <<wvars, ovars, hvars, ivars>>
    \/ absolute_position_start /\ UNCHANGED <<wvars, ovars, hvars, ivars>>
    \/ (\E entity \in Entities : absolute_position_system(entity))
          /\ UNCHANGED <<wvars, ovars, hvars, ivars>>

\* main.rs's App before its first fixed step.  Its own controller_system and
\* cursor_grab_system gate as input.rs's do and take no step here.
MainSpecInit == WorldInit /\ OrbitIdle /\ HierarchyIdle /\ InputIdle /\ MainInit

MainSpec == MainSpecInit /\ [][MainNext]_vars

\* C20: when absolute_position_system has run, the Transform of every entity
\* with a Position and a Transform holds the position the system resolved for
\* that entity in this tick, whatever order the entities were yielded in.
C20_EveryTransformWritten ==
    (epc = "mtick" /\ ticks > 0 /\ Cardinality(origins) = 1) =>
        \A e \in globals : translation[e] = AsVec3(cache[e])

\* The sum of the relative Positions from e up to its parent-less ancestor.
RECURSIVE PositionSum(_, _, _, _)
PositionSum(orbits, positions, e, fuel) ==
    IF HasRelativeMotion(orbits, e) /\ fuel > 0
    THEN VAdd(positions[e],
              PositionSum(orbits, positions, orbits[e].relative_to, fuel - 1))
    ELSE positions[e]

\* C21: every position absolute_position_inner has resolved is the sum of the
\* Positions along the entity's orbit-parent chain minus the origin's
\* Position, the origin being subtracted once whatever the chain's depth.
C21_OriginSubtractedOnce ==
    epc \in {"absiter", "mtick"} =>
        \A e \in DOMAIN cache :
            cache[e] = VSub(PositionSum(relative, gpos, e, NumEntities),
                            gpos[CHOOSE o \in origins : TRUE])

-----------------------------------------------------------------------------
(* Entities that carry a bevy Parent beside their GlobalPosition (physics.rs)
   or Position (main.rs), in a debug and in a release build.  Either program
   runs, from its own setup. *)

ParentInit ==
    /\ WorldInit
    /\ OrbitIdle
    /\ InputIdle
    /\ EcsInit \/ MainInit
    /\ origins = {1}
    /\ parented \in {{}} \cup {{e} : e \in Entities}
    /\ debug_assertions \in BOOLEAN

\* Either program's systems, as set up by ParentInit.
ParentNext == EcsNext \/ MainNext

ParentSpec == ParentInit /\ [][ParentNext]_vars

\* The entity the main.rs step for `entity` asserts on first: the nearest
\* entity with a Parent on its unresolved orbit-parent chain, if any.
RECURSIVE Conflicting(_, _)
Conflicting(entity, fuel) ==
    IF entity \in DOMAIN cache THEN {}
    ELSE IF entity \in parented THEN {entity}
    ELSE IF HasRelativeMotion(relative, entity) /\ fuel > 0
    THEN Conflicting(relative[entity].relative_to, fuel - 1)
    ELSE {}

-----------------------------------------------------------------------------
(* Orbit2D::chi, src/orbit.rs lines 90-106: the Newton-Raphson loop.

   The f64 values are in units of 1e-11.  The loop's control depends on
   the step `delta` only through `delta.abs() < 1e-10`; the step itself, a
   quotient of Stumpff-function expressions, can be any f64, NaN included, and
   is drawn anew in every iteration. *)

CHI_MAX_ITERATIONS == 100
CHI_TOLERANCE == 10

\* The steps a Newton iteration can produce: zero, just below and just at the
\* tolerance on both sides, and NaN.
ChiSteps == {F64(0), F64(9), F64(-9), F64(10), F64(-10), F64_NAN}

\* line 95: the initial guess, finite or (from a NaN element or time) NaN
ChiInit ==
    /\ WorldInit
    /\ EcsIdle
    /\ HierarchyIdle
    /\ InputIdle
    /\ orbit_in \in OrbitInputs
    /\ orbit_in.shape.t0 = SimInstant_epoch
    /\ orbit_in.inc = 0
    /\ query = SimInstant_epoch
    /\ result \in {[chi |-> c, iterations |-> 0, delta |-> F64(0)] : c \in {F64(0), F64_NAN}}
    /\ opc = "chi"

\* lines 96-104: one pass through the body of `for _ in 0..100`
ChiIterate(delta) ==
    /\ opc = "chi"
    /\ result.iterations < CHI_MAX_ITERATIONS
    /\ result' = [chi        |-> F64_sub(result.chi, delta),
                  iterations |-> result.iterations + 1,
                  delta      |-> IF result.chi.nan THEN F64_NAN ELSE delta]
    /\ opc' = IF F64_abs_lt(result'.delta, CHI_TOLERANCE) THEN "chi_returned" ELSE "chi"
    /\ UNCHANGED <<orbit_in, query>>

\* line 105: the range 0..100 is exhausted
ChiExhausted ==
    /\ opc = "chi"
    /\ result.iterations = CHI_MAX_ITERATIONS
    /\ opc' = "chi_returned"
    /\ UNCHANGED <<orbit_in, query, result>>

ChiNext ==
    \/ (\E delta \in ChiSteps : ChiIterate(delta)) /\ UNCHANGED <<wvars, evars, hvars, ivars>>
    \/ ChiExhausted /\ UNCHANGED <<wvars, evars, hvars, ivars>>

ChiSpec == ChiInit /\ [][ChiNext]_vars

\* C24: the loop makes at most 100 iterations, goes on while the last step
\* was not below the tolerance in magnitude (a NaN step is not), and when it
\* has returned either the last step was below the tolerance or all 100
\* iterations were made.
C24_ChiLoopBounded ==
    /\ opc \in {"chi", "chi_returned"} => result.iterations <= 100
    /\ (opc = "chi" /\ result.iterations > 0) =>
          (result.delta.nan \/ Abs(result.delta.val) >= 10)
    /\ opc = "chi_returned" =>
          \/ result.iterations = 100
          \/ (~result.delta.nan /\ Abs(result.delta.val) < 10)

\* The step was NaN to the end: the loop returned after its 100th iteration.
C24_Witness ==
    /\ opc = "chi_returned"
    /\ result.iterations = 100
    /\ result.delta.nan
    /\ result.chi.nan

-----------------------------------------------------------------------------
(* World::update when Orbit2D::chi leaves its loop without having converged:
   current_state is then computed from the last iterate, and the position it
   returns is off by an error that depends on the iterate.  The outcome of
   each body's solve is drawn: exact, or off by estimate_error; result keeps
   the body whose solve was off and the update it happened in. *)

\* orbit.rs lines 116-138: the state computed from a chi that is off
Solver_estimate(state, estimate_error) ==
    [state EXCEPT !.position = VAdd(state.position, estimate_error)]

\* One iteration of the while-let loop of update_positions, the solve of the
\* body's own orbit converging or not.
SolverUpdateStep(estimate_error) ==
    /\ wpc = "updating"
    /\ pending # <<>>
    /\ LET tag == pending[Len(pending)]
           own == Solver_estimate(
                      Trajectory_current_state(bodies[tag].trajectory, time),
                      estimate_error)
       IN  /\ estimate_error # Zero3 =>
                 /\ bodies[tag].trajectory.kind = "Orbiting"
                 /\ IF result.none THEN TRUE ELSE result.update < updates
           /\ bodies' = UpdatePositions_write(bodies, tag,
                            State3D_offset_by(own,
                                UpdatePositions_parent_state(bodies, tag, time)))
           /\ pending' = UpdatePositions_next_pending(pending, bodies[tag].satellites)
           /\ writes' = [writes EXCEPT ![tag] = @ + 1]
           /\ result' = IF estimate_error # Zero3
                        THEN [none |-> FALSE, tag |-> tag, update |-> updates]
                        ELSE result
    /\ wpc' = IF pending' = <<>> THEN "updated" ELSE "updating"
    /\ UNCHANGED <<roots, body_tags, time, last_update, updates, last_add>>
    /\ UNCHANGED <<orbit_in, query, opc>>

SolverNext ==
    \/ \E spec \in OrbitSpecs, mass \in Masses, radius \in Radii :
          AddBody(spec, mass, radius) /\ UNCHANGED <<evars, ovars, hvars, ivars>>
    \/ \E elapsed \in Elapsed :
          UpdateBegin(elapsed) /\ UNCHANGED <<evars, ovars, hvars, ivars>>
    \/ \E estimate_error \in {Zero3, <<1, 0, 0>>} :
          SolverUpdateStep(estimate_error) /\ UNCHANGED <<evars, hvars, ivars>>

SolverSpec == Init /\ [][SolverNext]_vars

\* The absolute state of tag at t when every solve on its chain is exact.
RECURSIVE ExactState(_, _, _, _)
ExactState(bs, tag, t, fuel) ==
    LET parent == Trajectory_parent(bs[tag].trajectory)
    IN  State3D_offset_by(
            Trajectory_current_state(bs[tag].trajectory, t),
            IF parent.none \/ fuel = 0 THEN State3D_zero(t)
            ELSE ExactState(bs, parent.val, t, fuel - 1))

\* C25: an update in which the solve of one body did not converge completes,
\* has written every body's state once, and has given every other body the
\* state it has when all solves are exact.
C25_NonConvergenceIsolated ==
    (wpc = "updated" /\ (IF result.none THEN FALSE ELSE result.update = updates)) =>
        /\ \A tag \in DOMAIN bodies : writes[tag] = 1
        /\ \A tag \in DOMAIN bodies \ {result.tag} :
              bodies[tag].abs_state = ExactState(bodies, tag, time, MaxBodies)

====
